---------------------------- MODULE Spec2Model ----------------------------
(***************************************************************************)
(* The program code generator of the GP 2 compiler (genProgram.c) and the  *)
(* execution of the C program it emits.                                    *)
(*                                                                         *)
(* The generator is modelled as the recursive operators of genProgram.c    *)
(* (generateProgramCode, generateRuleCall, generateBranchStatement,        *)
(* generateLoopStatement, generateFailureCode, singleRule, neverFails,     *)
(* nullCommand).  The text they print is kept as a tree of C statements;   *)
(* each statement carries the line of genProgram.c that prints it.  The    *)
(* emitted main function is then executed statement by statement on an     *)
(* abstract host graph with a graph change stack and a graph copy stack.   *)
(***************************************************************************)
EXTENDS Integers, Sequences, FiniteSets, TLC

(***************************************************************************)
(* Bounds of the model.                                                    *)
(***************************************************************************)
\* Rule applications one execution of the emitted program may perform.
MaxChanges == 3

(***************************************************************************)
(* The command AST (ast.h, as read by genProgram.c).                       *)
(* type        command->type                                               *)
(* rule_set    the rules of a RULE_SET_CALL; the one rule of a RULE_CALL   *)
(* sub         the subcommands: commands of a COMMAND_SEQUENCE; condition, *)
(*             then_command, else_command of a branch; loop_body; the      *)
(*             procedure's commands; left_command, right_command of an or  *)
(* inner_loop  flag of a BREAK_STATEMENT                                   *)
(***************************************************************************)
GPRule(n, e, p) == [name |-> n, empty_lhs |-> e, is_predicate |-> p]

GPCommand(t, rs, cs, il) == [type |-> t, rule_set |-> rs, sub |-> cs, inner_loop |-> il]

RuleCall(r)     == GPCommand("RULE_CALL", <<r>>, <<>>, FALSE)
RuleSetCall(rs) == GPCommand("RULE_SET_CALL", rs, <<>>, FALSE)
Sequence(cs)    == GPCommand("COMMAND_SEQUENCE", <<>>, cs, FALSE)
ProcCall(c)     == GPCommand("PROCEDURE_CALL", <<>>, <<c>>, FALSE)
IfStmt(c, p, q) == GPCommand("IF_STATEMENT", <<>>, <<c, p, q>>, FALSE)
TryStmt(c, p, q) == GPCommand("TRY_STATEMENT", <<>>, <<c, p, q>>, FALSE)
Loop(c)         == GPCommand("ALAP_STATEMENT", <<>>, <<c>>, FALSE)
Or(l, r)        == GPCommand("PROGRAM_OR", <<>>, <<l, r>>, FALSE)
Skip            == GPCommand("SKIP_STATEMENT", <<>>, <<>>, FALSE)
Fail            == GPCommand("FAIL_STATEMENT", <<>>, <<>>, FALSE)
Break(il)       == GPCommand("BREAK_STATEMENT", <<>>, <<>>, il)

condition(c)     == c.sub[1]
then_command(c)  == c.sub[2]
else_command(c)  == c.sub[3]
loop_body(c)     == c.sub[1]
proc_commands(c) == c.sub[1]
left_command(c)  == c.sub[1]
right_command(c) == c.sub[2]

(***************************************************************************)
(* The three analyses.                                                     *)
(***************************************************************************)
RECURSIVE nullCommand(_)
nullCommand(command) ==
  CASE command.type = "COMMAND_SEQUENCE" ->
         \A i \in 1..Len(command.sub) : nullCommand(command.sub[i])
    [] command.type = "RULE_CALL" -> command.rule_set[1].is_predicate
    [] command.type = "RULE_SET_CALL" ->
         \A i \in 1..Len(command.rule_set) : command.rule_set[i].is_predicate
    [] command.type = "PROCEDURE_CALL" -> nullCommand(proc_commands(command))
    [] command.type = "IF_STATEMENT" ->
         /\ nullCommand(then_command(command))
         /\ nullCommand(else_command(command))
    [] command.type = "TRY_STATEMENT" ->
         /\ nullCommand(condition(command))
         /\ nullCommand(then_command(command))
         /\ nullCommand(else_command(command))
    [] command.type = "ALAP_STATEMENT" -> nullCommand(loop_body(command))
    [] command.type = "PROGRAM_OR" ->
         /\ nullCommand(left_command(command))
         /\ nullCommand(right_command(command))
    [] command.type \in {"BREAK_STATEMENT", "SKIP_STATEMENT", "FAIL_STATEMENT"} -> TRUE
    [] OTHER -> FALSE

RECURSIVE singleRule(_)
singleRule(command) ==
  CASE command.type = "COMMAND_SEQUENCE" ->
         LET nonNull == {i \in 1..Len(command.sub) : ~nullCommand(command.sub[i])}
         IN  IF nonNull = {} THEN TRUE
             ELSE LET first == CHOOSE i \in nonNull : \A j \in nonNull : i <= j
                  IN  IF first < Len(command.sub) THEN FALSE
                      ELSE singleRule(command.sub[first])
    [] command.type \in {"RULE_CALL", "RULE_SET_CALL"} -> TRUE
    [] command.type = "PROCEDURE_CALL" -> singleRule(proc_commands(command))
    [] command.type \in {"IF_STATEMENT", "TRY_STATEMENT", "ALAP_STATEMENT"} -> FALSE
    [] command.type = "PROGRAM_OR" ->
         /\ singleRule(left_command(command))
         /\ singleRule(right_command(command))
    [] command.type \in {"SKIP_STATEMENT", "FAIL_STATEMENT", "BREAK_STATEMENT"} -> TRUE
    [] OTHER -> FALSE

RECURSIVE neverFails(_)

\* neverFails deciding a rule set by its first rule alone.
neverFailsByFirstRule(command) ==
  CASE command.type = "COMMAND_SEQUENCE" ->
         \A i \in 1..Len(command.sub) : neverFails(command.sub[i])
    [] command.type = "RULE_CALL" -> command.rule_set[1].empty_lhs
    [] command.type = "RULE_SET_CALL" -> command.rule_set[1].empty_lhs
    [] command.type = "PROCEDURE_CALL" -> neverFails(proc_commands(command))
    [] command.type \in {"IF_STATEMENT", "TRY_STATEMENT"} ->
         /\ neverFails(then_command(command))
         /\ neverFails(else_command(command))
    [] command.type = "ALAP_STATEMENT" -> TRUE
    [] command.type = "PROGRAM_OR" ->
         /\ neverFails(left_command(command))
         /\ neverFails(right_command(command))
    [] command.type \in {"BREAK_STATEMENT", "SKIP_STATEMENT"} -> TRUE
    [] command.type = "FAIL_STATEMENT" -> FALSE
    [] OTHER -> FALSE

neverFails(command) ==
  CASE command.type = "COMMAND_SEQUENCE" ->
         \A i \in 1..Len(command.sub) : neverFails(command.sub[i])
    [] command.type = "RULE_CALL" -> command.rule_set[1].empty_lhs
    [] command.type = "RULE_SET_CALL" ->
         \A i \in 1..Len(command.rule_set) : command.rule_set[i].empty_lhs
    [] command.type = "PROCEDURE_CALL" -> neverFails(proc_commands(command))
    [] command.type \in {"IF_STATEMENT", "TRY_STATEMENT"} ->
         /\ neverFails(then_command(command))
         /\ neverFails(else_command(command))
    [] command.type = "ALAP_STATEMENT" -> TRUE
    [] command.type = "PROGRAM_OR" ->
         /\ neverFails(left_command(command))
         /\ neverFails(right_command(command))
    [] command.type \in {"BREAK_STATEMENT", "SKIP_STATEMENT"} -> TRUE
    [] command.type = "FAIL_STATEMENT" -> FALSE
    [] OTHER -> FALSE


(***************************************************************************)
(* State.                                                                  *)
(***************************************************************************)
VARIABLES
  pc,                   \* "gen": before generateRuntimeMain; "aborted": the
                        \* generator called exit(0); "nocompile": main.c is not
                        \* well-formed C; "run", "brk", "ret": the emitted main
                        \* runs, leaves a loop by break, returns; "done": main
                        \* has returned; "exit": it called exit(1); "crash";
                        \* "again": generateRuntimeMain was called once more
  main_program,         \* decl->main_program of the MAIN_DECLARATION
  graph_copying,        \* the global strategy flag read by the generator
  restore_point_count,  \* the global counter of genProgram.c
  main_c,               \* the text written to main.c, one entry per call of
                        \* generateRuntimeMain
  console,              \* the messages of print_error
  ctrl,                 \* control stack of the emitted program
  success,              \* the emitted global 'bool success'
  host,                 \* the host graph: the set of changes applied to it
  nextChange,           \* the next rule application's change
  graph_change_stack,   \* the recorded changes, oldest first
  graph_stack,          \* the host graph copies, oldest first
  rpvar,                \* the emitted variables restore_point<N>
  releases,             \* per restore point: -1 before its capture, else the
                        \* undo/discard/pop steps since its capture (at most 2)
  captures,             \* the restore points captured, latest capture last
  output,               \* what was written to gp2.output
  gc_calls,             \* calls of garbageCollect
  acquired,             \* what the emitted program holds: "log", "host",
                        \* "morphisms", "output_file"
  ev                    \* the step just taken

vars == <<pc, main_program, graph_copying, restore_point_count, main_c, console, ctrl,
          success, host, nextChange, graph_change_stack, graph_stack, rpvar, releases,
          captures, output, gc_calls, acquired, ev>>

(***************************************************************************)
(* The emitted text.  A statement is a record:                             *)
(*   op    the kind of C statement                                         *)
(*   line  the line of genProgram.c that prints it                         *)
(*   ctx   data.context of the call that prints it                         *)
(*   arg   the rule name or message it mentions                            *)
(*   rp    the N of the restore_point<N> / popGraphs(N) it mentions        *)
(*   flag  its boolean argument                                            *)
(*   a, b  the statements of its block(s)                                  *)
(*   g     for op "cmd" only.  A "cmd" statement prints nothing: it groups *)
(*         the text printed by one call of generateProgramCode, line is    *)
(*         the line of the call, and g describes the command passed and    *)
(*         holds the fields of the CommandData passed that ctx and rp do   *)
(*         not.                                                            *)
(***************************************************************************)
NoG ==
  [type |-> "", idx |-> 0, n |-> 0, nf |-> FALSE, null |-> FALSE, single |-> FALSE,
   loop_depth |-> 0, record_changes |-> FALSE, indent |-> 0]

Stmt(op, line, data, arg, rp, flag) ==
  [op |-> op, line |-> line, ctx |-> data.context, arg |-> arg, rp |-> rp,
   flag |-> flag, a |-> <<>>, b |-> <<>>, g |-> NoG]

Block(op, line, data, arg, flag, a, b) ==
  [op |-> op, line |-> line, ctx |-> data.context, arg |-> arg, rp |-> -1,
   flag |-> flag, a |-> a, b |-> b, g |-> NoG]

(***************************************************************************)
(* typedef struct CommandData                                              *)
(***************************************************************************)
CommandData(context, loop_depth, record_changes, restore_point, indent) ==
  [context |-> context, loop_depth |-> loop_depth, record_changes |-> record_changes,
   restore_point |-> restore_point, indent |-> indent]

(***************************************************************************)
(* generateFailureCode                                                     *)
(***************************************************************************)
\* generateFailureCode printing the message only at the top level: no
\* teardown, no return.
generateFailureCodeNoReturn(rule_name, data) ==
  IF data.context = "MAIN_BODY"
  THEN << IF rule_name # "NULL"
          THEN Stmt("fprintf", 736, data, "rule not applicable", -1, FALSE)
          ELSE Stmt("fprintf", 738, data, "Fail statement invoked", -1, FALSE) >>
  ELSE << Stmt("setSuccess", 747, data, rule_name, -1, FALSE) >>

generateFailureCode(rule_name, data) ==
  (IF data.context = "MAIN_BODY"
   THEN << IF rule_name # "NULL"
           THEN Stmt("fprintf", 736, data, "rule not applicable", -1, FALSE)
           ELSE Stmt("fprintf", 738, data, "Fail statement invoked", -1, FALSE),
           Stmt("printf", 740, data, "Output information saved", -1, FALSE),
           Stmt("garbageCollect", 741, data, "", -1, FALSE),
           Stmt("fclose", 743, data, "", -1, FALSE),
           Stmt("return", 744, data, "", -1, FALSE) >>
   ELSE << Stmt("setSuccess", 747, data, rule_name, -1, FALSE) >>)
  \o
  (IF data.context \in {"IF_BODY", "TRY_BODY"}
   THEN << Stmt("break", 749, data, "", -1, FALSE) >> ELSE << >>)
  \o
  (IF data.context = "LOOP_BODY" /\ data.restore_point >= 0
   THEN IF graph_copying
        THEN << Stmt("popHost", 754, data, "", data.restore_point, FALSE) >>
        ELSE << Stmt("undoChanges", 755, data, "", data.restore_point, FALSE) >>
   ELSE << >>)

(***************************************************************************)
(* generateRuleCall                                                        *)
(***************************************************************************)
generateRuleCall(rule, last_rule, data) ==
  IF rule.empty_lhs
  THEN IF rule.is_predicate THEN << >>
       ELSE << IF data.restore_point >= 0 /\ ~graph_copying
               THEN Stmt("apply", 429, data, rule.name, -1, TRUE)
               ELSE Stmt("apply", 430, data, rule.name, -1, FALSE),
               Stmt("setSuccess", 436, data, rule.name, -1, TRUE) >>
  ELSE LET matched ==
             (IF ~rule.is_predicate
              THEN IF data.context # "IF_BODY" \/ data.restore_point >= 0
                   THEN IF data.record_changes /\ ~graph_copying
                        THEN << Stmt("apply", 458, data, rule.name, -1, TRUE) >>
                        ELSE << Stmt("apply", 459, data, rule.name, -1, FALSE) >>
                   ELSE << Stmt("initialiseMorphism", 466, data, rule.name, -1, FALSE) >>
              ELSE << >>)
             \o << Stmt("setSuccess", 468, data, rule.name, -1, TRUE) >>
             \o (IF ~last_rule THEN << Stmt("break", 472, data, "", -1, FALSE) >>
                 ELSE << >>)
           new_data == [data EXCEPT !.indent = data.indent + 3]
           failed == IF last_rule THEN generateFailureCode(rule.name, new_data)
                     ELSE << >>
       IN  << Block("ifMatch", 443, data, rule.name, last_rule, matched, failed) >>


(***************************************************************************)
(* generateProgramCode, generateBranchStatement, generateLoopStatement.    *)
(* The global restore_point_count is threaded through as cnt.  The result  *)
(* is [code, cnt, abort, log]: the text printed, the counter afterwards,   *)
(* whether generateLoopStatement called exit(0), and the messages passed   *)
(* to print_error.  After exit(0) nothing more is printed: code is then    *)
(* the text printed up to the exit, its open blocks closed.                *)
(***************************************************************************)
RECURSIVE generateProgramCode(_, _, _)
RECURSIVE generateBranchStatement(_, _, _)
RECURSIVE generateLoopStatement(_, _, _)
RECURSIVE generateCommands(_, _, _, _)
RECURSIVE generateRules(_, _, _)

\* The text r of one call generateProgramCode(command, data) made at line
\* site; idx of n: the position of command in the COMMAND_SEQUENCE iterated
\* there.
Wrap(site, idx, n, command, data, r) ==
  [code |-> << [op |-> "cmd", line |-> site, ctx |-> data.context,
                arg |-> "", rp |-> data.restore_point, flag |-> FALSE,
                a |-> r.code, b |-> << >>,
                g |-> [type |-> command.type, idx |-> idx, n |-> n,
                       nf |-> neverFails(command),
                       null |-> nullCommand(command),
                       single |-> singleRule(command),
                       loop_depth |-> data.loop_depth,
                       record_changes |-> data.record_changes,
                       indent |-> data.indent]] >>,
   cnt |-> r.cnt, abort |-> r.abort, log |-> r.log]

\* The result of a call that is not made: the generator has exited.
Exited(cnt) == [code |-> << >>, cnt |-> cnt, abort |-> TRUE, log |-> << >>]

Call(site, idx, n, command, data, cnt) ==
  Wrap(site, idx, n, command, data, generateProgramCode(command, data, cnt))

\* The text of the commands from element i on, given the text r of element i
\* and the text rest of the elements after it; more: element i is not the last.
SequenceCode(data, more, r, rest) ==
  [code |-> r.code
            \o (IF data.context = "LOOP_BODY" /\ more /\ ~r.abort
                THEN << Block("ifSuccess", 287, data, "", FALSE, << >>,
                              << Stmt("break", 287, data, "", -1, FALSE) >>) >>
                ELSE << >>)
            \o rest.code,
   cnt |-> rest.cnt, abort |-> rest.abort, log |-> r.log \o rest.log]

NextCommands(commands, i, data, r) ==
  SequenceCode(data, i < Len(commands), r,
               IF r.abort THEN Exited(r.cnt)
               ELSE generateCommands(commands, i + 1, data, r.cnt))

\* The while loop over command->commands (lines 282-289), from element i on.
generateCommands(commands, i, data, cnt) ==
  IF i > Len(commands) THEN [code |-> << >>, cnt |-> cnt, abort |-> FALSE, log |-> << >>]
  ELSE NextCommands(commands, i, data,
                    Call(285, i, Len(commands), commands[i], data, cnt))

\* The while loop over command->rule_set (lines 306-313), from rule i on.
generateRules(rules, i, new_data) ==
  IF i > Len(rules) THEN << >>
  ELSE generateRuleCall(rules[i], i = Len(rules), new_data)
       \o generateRules(rules, i + 1, new_data)

\* case PROGRAM_OR, given the texts l and r of the two subprograms.
OrCode(data, l, r) ==
  [code |-> << Block("or", 338, data, "", FALSE, l.code, r.code) >>
            \o (IF data.context \in {"IF_BODY", "TRY_BODY"} /\ ~r.abort
                THEN << Stmt("break", 348, data, "", -1, FALSE) >>
                ELSE << >>),
   cnt |-> r.cnt, abort |-> r.abort, log |-> l.log \o r.log]

OrRight(command, data, new_data, l) ==
  OrCode(data, l, IF l.abort THEN Exited(l.cnt)
                  ELSE Call(345, 1, 1, right_command(command), new_data, l.cnt))

\* case BREAK_STATEMENT without the case of a break in an inner loop.
generateBreakStatementDiscarding(command, data) ==
  (IF data.restore_point >= 0
   THEN IF graph_copying
        THEN << Stmt("popFree", 384, data, "", data.restore_point, FALSE) >>
        ELSE << Stmt("discardChanges", 389, data, "", data.restore_point, FALSE) >>
   ELSE << >>)
  \o << Stmt("break", 398, data, "", -1, FALSE) >>

\* case BREAK_STATEMENT
generateBreakStatement(command, data) ==
  (IF data.restore_point >= 0
   THEN IF command.inner_loop
        THEN << Block("ifSuccess", 374, data, "", TRUE,
                  << Stmt("assignTop", 374, data, "", data.restore_point, FALSE) >>,
                  << >>) >>
        ELSE IF graph_copying
             THEN << Stmt("popFree", 384, data, "", data.restore_point, FALSE) >>
             ELSE << Stmt("discardChanges", 389, data, "", data.restore_point, FALSE) >>
   ELSE << >>)
  \o << Stmt("break", 398, data, "", -1, FALSE) >>

generateProgramCode(command, data, cnt) ==
  CASE command.type = "COMMAND_SEQUENCE" ->
         generateCommands(command.sub, 1, data, cnt)
    [] command.type = "RULE_CALL" ->
         [code |-> generateRuleCall(command.rule_set[1], TRUE, data),
          cnt |-> cnt, abort |-> FALSE, log |-> << >>]
    [] command.type = "RULE_SET_CALL" ->
         LET new_data == [data EXCEPT !.indent = data.indent + 3]
         IN  [code |-> << Block("doOnce", 301, data, "", FALSE,
                                generateRules(command.rule_set, 1, new_data), << >>) >>,
              cnt |-> cnt, abort |-> FALSE, log |-> << >>]
    [] command.type = "PROCEDURE_CALL" ->
         Call(320, 1, 1, proc_commands(command), data, cnt)
    [] command.type \in {"IF_STATEMENT", "TRY_STATEMENT"} ->
         generateBranchStatement(command, data, cnt)
    [] command.type = "ALAP_STATEMENT" ->
         generateLoopStatement(command, data, cnt)
    [] command.type = "PROGRAM_OR" ->
         OrRight(command, data, [data EXCEPT !.indent = data.indent + 3],
                 Call(341, 1, 1, left_command(command),
                      [data EXCEPT !.indent = data.indent + 3], cnt))
    [] command.type = "SKIP_STATEMENT" ->
         [code |-> << Stmt("setSuccess", 353, data, "", -1, TRUE) >>,
          cnt |-> cnt, abort |-> FALSE, log |-> << >>]
    [] command.type = "FAIL_STATEMENT" ->
         [code |-> generateFailureCode("NULL", data), cnt |-> cnt, abort |-> FALSE,
          log |-> << >>]
    [] command.type = "BREAK_STATEMENT" ->
         [code |-> generateBreakStatement(command, data),
          cnt |-> cnt, abort |-> FALSE, log |-> << >>]
    [] OTHER -> [code |-> << >>, cnt |-> cnt, abort |-> FALSE, log |-> << >>]

\* generateBranchStatement from line 544 on, given the restore point rp of the
\* condition and the texts c, t, e of condition, then and else branch.
BranchCode(command, data, rp, c, t, e) ==
  LET isIf == command.type = "IF_STATEMENT"
      new_data == [data EXCEPT !.indent = data.indent + 3]
      capture == IF rp >= 0
                 THEN IF graph_copying
                      THEN << Stmt("copyGraph", 549, data, "", rp, FALSE) >>
                      ELSE << Stmt("capture", 552, data, "", rp, FALSE) >>
                 ELSE << >>
      restore(l1, l2, d) ==
        IF graph_copying THEN << Stmt("popHost", l1, d, "", rp, FALSE) >>
        ELSE << Stmt("undoChanges", l2, d, "", rp, FALSE) >>
      ifRestore == IF isIf /\ rp >= 0 THEN restore(569, 571, data) ELSE << >>
      thenPre == IF ~isIf /\ rp >= 0
                 THEN << Stmt("discardChanges", 593, new_data, "", rp, FALSE) >>
                 ELSE << >>
      elsePre == IF ~isIf /\ rp >= 0 THEN restore(609, 611, new_data) ELSE << >>
  IN  [code |->
         capture
         \o << Block("doOnce", 560, data, "", FALSE, c.code, << >>) >>
         \o (IF c.abort THEN << >>
             ELSE ifRestore
                  \o << Block("ifSuccess", 589, data, "", TRUE,
                              thenPre \o t.code,
                              IF t.abort THEN << >>
                              ELSE elsePre
                                   \o << Stmt("setSuccess", 624, new_data, "", -1, TRUE) >>
                                   \o e.code) >>)
         \o (IF data.context \in {"IF_BODY", "TRY_BODY"} /\ ~e.abort
             THEN << Stmt("break", 627, data, "", -1, FALSE) >> ELSE << >>),
       cnt |-> e.cnt, abort |-> e.abort, log |-> c.log \o t.log \o e.log]

BranchElse(command, data, new_data, rp, c, t) ==
  BranchCode(command, data, rp, c, t,
             IF t.abort THEN Exited(t.cnt)
             ELSE Call(625, 1, 1, else_command(command), new_data, t.cnt))

BranchThen(command, data, new_data, rp, c) ==
  BranchElse(command, data, new_data, rp, c,
             IF c.abort THEN Exited(c.cnt)
             ELSE Call(600, 1, 1, then_command(command), new_data, c.cnt))

\* generateBranchStatement suppressing the restore point of a try statement
\* for a null condition only.
generateBranchStatementNullOnly(command, data, cnt) ==
  LET isIf == command.type = "IF_STATEMENT"
      null_condition == nullCommand(condition(command))
      noRestore == IF isIf THEN singleRule(condition(command)) ELSE null_condition
      condition_data ==
        [data EXCEPT !.context = IF isIf THEN "IF_BODY" ELSE "TRY_BODY",
                     !.indent = data.indent + 3,
                     !.record_changes = IF noRestore THEN data.record_changes ELSE TRUE,
                     !.restore_point = IF noRestore THEN -1 ELSE cnt]
      cnt1 == IF noRestore THEN cnt ELSE cnt + 1
  IN  BranchThen(command, data, [data EXCEPT !.indent = data.indent + 3],
                 condition_data.restore_point,
                 Call(562, 1, 1, condition(command), condition_data, cnt1))

\* generateBranchStatement passing the CommandData of the condition on to the
\* then and else branches.
generateBranchStatementConditionData(command, data, cnt) ==
  LET isIf == command.type = "IF_STATEMENT"
      null_condition == nullCommand(condition(command))
      simple_try == /\ singleRule(condition(command))
                    /\ nullCommand(then_command(command))
                    /\ nullCommand(else_command(command))
      noRestore == IF isIf THEN singleRule(condition(command))
                   ELSE null_condition \/ simple_try
      condition_data ==
        [data EXCEPT !.context = IF isIf THEN "IF_BODY" ELSE "TRY_BODY",
                     !.indent = data.indent + 3,
                     !.record_changes = IF noRestore THEN data.record_changes ELSE TRUE,
                     !.restore_point = IF noRestore THEN -1 ELSE cnt]
      cnt1 == IF noRestore THEN cnt ELSE cnt + 1
  IN  BranchThen(command, data, condition_data,
                 condition_data.restore_point,
                 Call(562, 1, 1, condition(command), condition_data, cnt1))

generateBranchStatement(command, data, cnt) ==
  LET isIf == command.type = "IF_STATEMENT"
      null_condition == nullCommand(condition(command))
      simple_try == /\ singleRule(condition(command))
                    /\ nullCommand(then_command(command))
                    /\ nullCommand(else_command(command))
      noRestore == IF isIf THEN singleRule(condition(command))
                   ELSE null_condition \/ simple_try
      condition_data ==
        [data EXCEPT !.context = IF isIf THEN "IF_BODY" ELSE "TRY_BODY",
                     !.indent = data.indent + 3,
                     !.record_changes = IF noRestore THEN data.record_changes ELSE TRUE,
                     !.restore_point = IF noRestore THEN -1 ELSE cnt]
      cnt1 == IF noRestore THEN cnt ELSE cnt + 1
  IN  BranchThen(command, data, [data EXCEPT !.indent = data.indent + 3],
                 condition_data.restore_point,
                 Call(562, 1, 1, condition(command), condition_data, cnt1))

\* generateLoopStatement from line 656 on, given the text of the loop body.
LoopCode(command, data, loop_data, body) ==
  LET warning == IF nullCommand(loop_body(command))
                 THEN << "Warning: Possible nontermination in loop." >> ELSE << >>
      rp == loop_data.restore_point
      capture == IF rp >= 0
                 THEN IF graph_copying
                      THEN << Stmt("copyGraph", 662, data, "", rp, FALSE) >>
                      ELSE << Stmt("capture", 665, data, "", rp, FALSE) >>
                 ELSE << >>
      after ==
        IF rp >= 0
        THEN IF loop_data.loop_depth > 1
             THEN << Block("ifSuccess", 687, loop_data, "", TRUE,
                       << Stmt("assignTop", 687, loop_data, "", rp, FALSE) >>, << >>) >>
             ELSE IF graph_copying
                  THEN << Block("ifSuccess", 697, loop_data, "", TRUE,
                            << Stmt("popFree", 699, loop_data, "", rp, FALSE) >>, << >>) >>
                  ELSE << Block("ifSuccess", 705, loop_data, "", TRUE,
                            << Stmt("discardChanges", 705, loop_data, "", rp, FALSE) >>,
                            << >>) >>
        ELSE << >>
  IN  [code |->
         capture
         \o << Block("while", 673, data, "", FALSE,
                     body.code \o (IF body.abort THEN << >> ELSE after), << >>) >>
         \o (IF body.abort THEN << >>
             ELSE << Stmt("setSuccess", 716, data, "", -1, TRUE) >>),
       cnt |-> body.cnt, abort |-> body.abort, log |-> warning \o body.log]

\* generateLoopStatement without the check for loop bodies that never fail.
generateLoopStatementUnchecked(command, data, cnt) ==
  LET single == singleRule(loop_body(command))
      loop_data ==
        [data EXCEPT !.context = "LOOP_BODY",
                     !.loop_depth = data.loop_depth + 1,
                     !.indent = data.indent + 3,
                     !.record_changes = IF single THEN data.record_changes ELSE TRUE,
                     !.restore_point = IF single THEN -1 ELSE cnt]
      cnt1 == IF single THEN cnt ELSE cnt + 1
  IN  LoopCode(command, data, loop_data,
               Call(675, 1, 1, loop_body(command), loop_data, cnt1))

\* generateLoopStatement leaving restore_point_count as it is.
generateLoopStatementSameCount(command, data, cnt) ==
  IF neverFails(loop_body(command))
  THEN [code |-> << >>, cnt |-> cnt, abort |-> TRUE,
        log |-> << "Error: Nontermination in loop." >>]
  ELSE
  LET single == singleRule(loop_body(command))
      loop_data ==
        [data EXCEPT !.context = "LOOP_BODY",
                     !.loop_depth = data.loop_depth + 1,
                     !.indent = data.indent + 3,
                     !.record_changes = IF single THEN data.record_changes ELSE TRUE,
                     !.restore_point = IF single THEN -1 ELSE cnt]
  IN  LoopCode(command, data, loop_data,
               Call(675, 1, 1, loop_body(command), loop_data, cnt))

generateLoopStatement(command, data, cnt) ==
  IF neverFails(loop_body(command))
  THEN [code |-> << >>, cnt |-> cnt, abort |-> TRUE,
        log |-> << "Error: Nontermination in loop." >>]
  ELSE
  LET single == singleRule(loop_body(command))
      loop_data ==
        [data EXCEPT !.context = "LOOP_BODY",
                     !.loop_depth = data.loop_depth + 1,
                     !.indent = data.indent + 3,
                     !.record_changes = IF single THEN data.record_changes ELSE TRUE,
                     !.restore_point = IF single THEN -1 ELSE cnt]
      cnt1 == IF single THEN cnt ELSE cnt + 1
  IN  LoopCode(command, data, loop_data,
               Call(675, 1, 1, loop_body(command), loop_data, cnt1))

(***************************************************************************)
(* generateRuntimeMain: the body of the emitted main function (lines       *)
(* 156-209), given the text r of the main program.                         *)
(***************************************************************************)
MainCode(initialData, r) ==
  [code |-> << Stmt("openLogFile", 159, initialData, "gp2.log", -1, FALSE),
               Block("ifArgc", 160, initialData, "", FALSE,
                     << Stmt("stderr", 162, initialData, "missing <host-file> argument", -1, FALSE),
                        Stmt("return", 163, initialData, "", -1, FALSE) >>, << >>),
               Stmt("buildHostGraph", 169, initialData, "", -1, FALSE),
               Block("ifNull", 170, initialData, "host", FALSE,
                     << Stmt("stderr", 172, initialData, "Error parsing host graph file", -1, FALSE),
                        Stmt("return", 173, initialData, "", -1, FALSE) >>, << >>),
               Stmt("fopen", 176, initialData, "gp2.output", -1, FALSE),
               Block("ifNull", 177, initialData, "output_file", FALSE,
                     << Stmt("stderr", 179, initialData, "gp2.output", -1, FALSE),
                        Stmt("exit", 180, initialData, "", -1, FALSE) >>, << >>),
               Stmt("makeMorphism", 189, initialData, "", -1, FALSE) >>
            \o r.code
            \o (IF r.abort THEN << >>
                ELSE << Stmt("printGraph", 203, initialData, "graph", -1, FALSE),
                        Stmt("printf", 204, initialData, "Output graph saved", -1, FALSE),
                        Stmt("garbageCollect", 205, initialData, "", -1, FALSE),
                        Stmt("fclose", 207, initialData, "", -1, FALSE),
                        Stmt("return", 208, initialData, "", -1, FALSE) >>),
   cnt |-> r.cnt, abort |-> r.abort, log |-> r.log]

generateRuntimeMain(program, cnt) ==
  MainCode(CommandData("MAIN_BODY", 0, FALSE, -1, 3),
           Call(199, 1, 1, program, CommandData("MAIN_BODY", 0, FALSE, -1, 3), cnt))


(***************************************************************************)
(* The runtime library, as far as the emitted main function uses it.       *)
(* The host graph is the set of changes applied to the input graph: a rule *)
(* application adds a change nothing else makes, undoing a recorded change *)
(* removes it.  An unrecorded change can never be removed.                 *)
(***************************************************************************)
NullGraph == {-1}

\* topOfGraphChangeStack()
topOfGraphChangeStack(stack) == Len(stack)

\* discardChanges(point): drops the records above point.
discardChanges(stack, point) ==
  IF Len(stack) > point THEN SubSeq(stack, 1, point) ELSE stack

\* undoChanges(host, point): reverses and drops the records above point.
undoChanges(graph, stack, point) ==
  [graph |-> graph \ {stack[i] : i \in (point + 1)..Len(stack)},
   stack |-> discardChanges(stack, point)]

\* copyGraph(host): pushes a copy of the host graph.
copyGraph(graph, stack) == Append(stack, graph)

\* popGraphs(point): pops the saved copy and returns it; NULL without one.
popGraphs(stack, point) ==
  IF stack = << >> THEN [graph |-> NullGraph, stack |-> stack]
  ELSE [graph |-> stack[Len(stack)], stack |-> SubSeq(stack, 1, Len(stack) - 1)]

(***************************************************************************)
(* Execution of the emitted main function.  ctrl is the stack of the       *)
(* blocks being executed, innermost last.  A frame:                        *)
(*   k     "blk" a { } block, "once" a do-while(false), "loop" a while,    *)
(*         "cmd" the text of one generateProgramCode call                  *)
(*   rest  the statements of the block still to execute; while a nested    *)
(*         block runs, its statement stays at the head of rest             *)
(*   line, ctx, rp, g   of the statement that opened the frame             *)
(*   host0, s0          host graph and success when the frame was opened   *)
(*   hostc    of the "cmd" frame of an if/try statement: the host graph    *)
(*            when its condition ended                                     *)
(*   failed   failure code has run in this branch condition                *)
(*   hit      a rule of this rule set has matched                          *)
(***************************************************************************)
Frame(k, s, rest) ==
  [k |-> k, rest |-> rest, line |-> s.line, ctx |-> s.ctx, rp |-> s.rp, g |-> s.g,
   host0 |-> host, s0 |-> success, hostc |-> host, failed |-> FALSE, hit |-> FALSE]

NoFrame ==
  [k |-> "", rest |-> << >>, line |-> 0, ctx |-> "", rp |-> -1, g |-> NoG,
   host0 |-> {}, s0 |-> TRUE, hostc |-> {}, failed |-> FALSE, hit |-> FALSE]

Top == ctrl[Len(ctrl)]
Cur == Head(Top.rest)
Running == pc = "run" /\ ctrl # << >> /\ Top.rest # << >>
Pop(c) == SubSeq(c, 1, Len(c) - 1)
Advance(c) == [c EXCEPT ![Len(c)].rest = Tail(@)]

\* The greatest element of a set of frame indices; 0 of the empty set.
Last(S) == IF S = {} THEN 0 ELSE CHOOSE i \in S : \A j \in S : j <= i

\* A frame holding the text of a generateProgramCode call; of the call for
\* the condition of an if/try statement (line 562).
IsCmd(f) == f.k = "cmd"
IsCondition(f) == f.k = "cmd" /\ f.line = 562

\* Index in c of the innermost such frame; 0 without one.
InnermostCmd(c) == Last({i \in 1..Len(c) : IsCmd(c[i])})
InnermostCondition(c) == Last({i \in 1..Len(c) : IsCondition(c[i])})

FrameAt(c, i) == IF i = 0 THEN NoFrame ELSE c[i]
CmdFrame(c) == FrameAt(c, InnermostCmd(c))
CondFrame(c) == FrameAt(c, InnermostCondition(c))

\* The restore frames in use: conditions and loop bodies generated with a
\* restore point whose text is being executed.
LiveFrames(c) ==
  {i \in 1..Len(c) : c[i].k = "cmd" /\ c[i].line \in {562, 675} /\ c[i].rp >= 0}

(***************************************************************************)
(* ev, the step just taken: the statement executed (op, line, ctx, arg,    *)
(* rp, flag, g), or op "enter"/"exit" with the fields of the "cmd" frame   *)
(* entered or left.                                                        *)
(*   how      pc during the step                                           *)
(*   brk      line of the break statement being executed, 0 without one    *)
(*   host0, s0, hostc, failed, hit   of the frame left (exit), else of the *)
(*            innermost "cmd" frame around the step                        *)
(*   ptype    command type of the innermost "cmd" frame around the step    *)
(*   cfailed  failed of the innermost branch condition around the step     *)
(*   lost     a discardChanges dropped records above the restore point of  *)
(*            a restore frame still in use                                 *)
(*   inner    a release step found a restore point captured after its own  *)
(*            still unreleased                                             *)
(*   n1       releases of restore point rp since its capture (release      *)
(*            steps), or how often the step was done                       *)
(*   hostb    the host graph before the step                               *)
(*   last     of a match: the rule is the last one of its rule set or the  *)
(*            rule of a rule call                                          *)
(***************************************************************************)
Event(op, s, around, c, lost, brk, n1) ==
  [op |-> op, line |-> s.line, ctx |-> s.ctx, arg |-> s.arg, rp |-> s.rp,
   flag |-> s.flag, g |-> s.g, how |-> pc, brk |-> brk,
   host0 |-> around.host0, s0 |-> around.s0, hostc |-> around.hostc,
   failed |-> around.failed, hit |-> around.hit, ptype |-> CmdFrame(c).g.type,
   cfailed |-> CondFrame(c).failed, lost |-> lost, inner |-> FALSE, n1 |-> n1,
   hostb |-> host, last |-> s.flag]

StmtOf(f) == [line |-> f.line, ctx |-> f.ctx, arg |-> "", rp |-> f.rp, flag |-> FALSE, g |-> f.g]

NoEvent ==
  [op |-> "", line |-> 0, ctx |-> "", arg |-> "", rp |-> -1, flag |-> FALSE,
   g |-> NoG, how |-> "gen", brk |-> 0, host0 |-> {}, s0 |-> TRUE, hostc |-> {},
   failed |-> FALSE, hit |-> FALSE, ptype |-> "", cfailed |-> FALSE, lost |-> FALSE,
   inner |-> FALSE, n1 |-> 0, hostb |-> {}, last |-> FALSE]

\* The step that executes the simple statement Cur.
Did == Event(Cur.op, Cur, CmdFrame(ctrl), ctrl, FALSE, 0, 0)


(***************************************************************************)
(* Well-formedness of the emitted C text: no block declares an identifier  *)
(* twice, and every restore_point<N> used is declared in an enclosing      *)
(* scope.  Declarations: "int restore_point<N>" (capture), "int random"    *)
(* (or), "Graph *copy" (popFree).  A "cmd" statement is no block.          *)
(* Identifiers are numbered: restore_point<N> is N, random -2, copy -3.    *)
(***************************************************************************)
RECURSIVE Flat(_)
Flat(block) ==
  IF block = << >> THEN << >>
  ELSE LET s == Head(block)
       IN  (IF s.op = "cmd" THEN Flat(s.a)
            ELSE << [s EXCEPT !.a = Flat(s.a), !.b = Flat(s.b)] >>)
           \o Flat(Tail(block))

Declares(s) ==
  CASE s.op = "capture" -> {s.rp}
    [] s.op = "or" -> {-2}
    [] s.op = "popFree" -> {-3}
    [] OTHER -> {}

Uses(s) ==
  IF s.op \in {"undoChanges", "discardChanges", "assignTop"} THEN {s.rp} ELSE {}

\* block: flat statements; i: the statement looked at; local: the names this
\* block has declared; outer: the names declared around it.
RECURSIVE WellFormed(_, _, _, _)
WellFormed(block, i, local, outer) ==
  IF i > Len(block) THEN TRUE
  ELSE LET s == block[i]
           seen == local \cup outer
       IN  /\ Declares(s) \cap local = {}
           /\ Uses(s) \subseteq seen
           /\ WellFormed(s.a, 1, {}, seen \cup Declares(s))
           /\ WellFormed(s.b, 1, {}, seen \cup Declares(s))
           /\ WellFormed(block, i + 1, local \cup Declares(s), outer)

Compiles(text) == WellFormed(Flat(text), 1, {}, {})


(***************************************************************************)
(* The programs generated and run.  Four rules, one of each kind:          *)
(*   rR  non-empty LHS, changes the graph     rP  non-empty LHS, predicate *)
(*   rE  empty LHS, changes the graph         rQ  empty LHS, predicate     *)
(* The programs are the commands of small fixed shapes over these rules:   *)
(* simple commands, pairs in sequence, or, every branch and loop over      *)
(* them, and branches, loops, ors and procedure calls nested in the        *)
(* condition, the branches or the body of another branch or loop.          *)
(***************************************************************************)
rR == GPRule("r", FALSE, FALSE)
rP == GPRule("p", FALSE, TRUE)
rE == GPRule("e", TRUE, FALSE)
rQ == GPRule("q", TRUE, TRUE)

cR == RuleCall(rR)
cP == RuleCall(rP)
cE == RuleCall(rE)
cQ == RuleCall(rQ)
Seq2(x, y) == Sequence(<<x, y>>)

\* The analysis that runs before the generator sets inner_loop on a break
\* statement whose loop lies in another loop.
RECURSIVE SetInnerLoop(_, _)
SetInnerLoop(c, depth) ==
  LET d == IF c.type = "ALAP_STATEMENT" THEN depth + 1 ELSE depth
  IN  [c EXCEPT !.inner_loop = (c.type = "BREAK_STATEMENT" /\ depth > 1),
                !.sub = [i \in 1..Len(c.sub) |-> SetInnerLoop(c.sub[i], d)]]

Simple ==
  {cR, cP, cE, cQ, Skip, Fail}
  \cup {RuleSetCall(rs) : rs \in {<<rR, rR>>, <<rE, rR>>, <<rR, rE>>, <<rP, rR>>,
                                  <<rQ, rR>>, <<rE, rP>>}}

Pairs ==
  {Seq2(x, y) : x \in {cR, cP, cE, RuleSetCall(<<rR, rR>>), RuleSetCall(<<rE, rR>>)},
                y \in {cR, cP, cE, cQ, Fail}}

Ors == {Or(x, y) : x \in {cR, cE, Fail}, y \in {cR, cP, Skip}}

Flat1 == Simple \cup Pairs \cup Ors

Branches == {<<Skip, Skip>>, <<cR, Skip>>, <<Skip, cR>>, <<cE, Fail>>, <<Fail, cR>>}
Branches2 == {<<Skip, Skip>>, <<cR, cE>>}

Level2 ==
  {IfStmt(c, b[1], b[2]) : c \in Flat1, b \in Branches}
  \cup {TryStmt(c, b[1], b[2]) : c \in Flat1, b \in Branches}
  \cup {Loop(c) : c \in Flat1}

Nested ==
  {IfStmt(cR, Skip, Skip), IfStmt(cP, cR, Skip), IfStmt(Seq2(cR, cR), cR, Skip),
   TryStmt(cR, Skip, Skip), TryStmt(cR, cR, Skip), TryStmt(Seq2(cR, cR), Skip, Skip),
   TryStmt(Seq2(cR, cR), cR, Fail),
   Loop(cR), Loop(Seq2(cR, cR)), Loop(Seq2(cR, cP)), Loop(RuleSetCall(<<rE, rR>>)),
   Or(cR, cP), ProcCall(cR), ProcCall(Seq2(cR, cR))}

Tails == {cR, cP, Fail}

Level3 ==
  {Seq2(x, y) : x \in Nested, y \in Tails}
  \cup {Seq2(y, x) : x \in Nested, y \in Tails}
  \cup {IfStmt(x, b[1], b[2]) : x \in Nested, b \in Branches2}
  \cup {TryStmt(x, b[1], b[2]) : x \in Nested, b \in Branches2}
  \cup {IfStmt(Seq2(x, y), b[1], b[2]) : x \in Nested, y \in Tails, b \in Branches2}
  \cup {TryStmt(Seq2(x, y), b[1], b[2]) : x \in Nested, y \in Tails, b \in Branches2}
  \cup {IfStmt(Seq2(y, x), b[1], b[2]) : x \in Nested, y \in Tails, b \in Branches2}
  \cup {TryStmt(Seq2(y, x), b[1], b[2]) : x \in Nested, y \in Tails, b \in Branches2}
  \cup {Loop(Seq2(x, y)) : x \in Nested, y \in Tails}
  \cup {Loop(Seq2(y, x)) : x \in Nested, y \in Tails}
  \cup {IfStmt(c, x, Skip) : c \in {cR, Seq2(cR, cR)}, x \in Nested}
  \cup {TryStmt(c, x, x) : c \in {cR, Seq2(cR, cR)}, x \in Nested}
  \cup {Loop(Seq2(cR, Loop(Seq2(x, cR)))) : x \in Nested}
  \cup {Seq2(x, y) : x \in Nested, y \in {Or(cR, cP), TryStmt(Seq2(cR, cR), Skip, Skip),
                                          Loop(Seq2(cR, cR))}}

Breaks ==
  {Loop(Seq2(cR, x)) : x \in {IfStmt(cP, Break(FALSE), Skip), TryStmt(cR, Break(FALSE), Skip),
                              TryStmt(Seq2(cR, cR), Break(FALSE), Fail), Break(FALSE)}}
  \cup {Loop(IfStmt(cR, Break(FALSE), Fail)),
        Loop(Seq2(cR, Loop(Seq2(cR, IfStmt(cP, Break(FALSE), Skip))))),
        Loop(Seq2(Loop(Seq2(cR, TryStmt(cR, Break(FALSE), Skip))), cR)),
        Loop(Or(cR, Break(FALSE))),
        Loop(Seq2(Loop(IfStmt(cR, Break(FALSE), Fail)), cR)),
        IfStmt(Loop(Seq2(cR, IfStmt(cP, Break(FALSE), Skip))), cR, Skip),
        TryStmt(Seq2(Loop(Seq2(cR, IfStmt(cP, Break(FALSE), Skip))), cR), Skip, Skip)}

\* A procedure whose body has a restore point, called at two places.
Procedures ==
  {Seq2(ProcCall(x), ProcCall(x)) : x \in {Loop(Seq2(cR, cR)), TryStmt(Seq2(cR, cR), cR, Fail)}}
  \cup {Loop(Seq2(ProcCall(x), ProcCall(x))) : x \in {IfStmt(Seq2(cR, cR), cR, Skip)}}

\* Loops whose body never fails, in a branch, in a procedure, in another
\* loop, and after a loop whose body is a null command.
NonTerminating ==
  {IfStmt(cR, Loop(Skip), cR), TryStmt(Seq2(cR, Loop(cQ)), cR, Skip),
   Seq2(cR, ProcCall(Loop(cE))), Seq2(Loop(cP), Loop(Skip)),
   Loop(Seq2(cP, Loop(Skip))), Loop(Seq2(cR, Loop(cE))), Seq2(Loop(cP), Loop(Fail))}

Programs ==
  {SetInnerLoop(c, 0) : c \in Flat1 \cup Level2 \cup Level3 \cup Breaks \cup Procedures
                                \cup NonTerminating}

(***************************************************************************)
(* Initial state: nothing generated, the emitted program not started.      *)
(***************************************************************************)
Init ==
  /\ pc = "gen"
  /\ main_program \in Programs
  /\ graph_copying \in BOOLEAN
  /\ restore_point_count = 0
  /\ main_c = << >>
  /\ console = << >>
  /\ ctrl = << >>
  /\ success = TRUE
  /\ host = NullGraph
  /\ nextChange = 1
  /\ graph_change_stack = << >>
  /\ graph_stack = << >>
  /\ rpvar = << >>
  /\ releases = << >>
  /\ captures = << >>
  /\ output = << >>
  /\ gc_calls = 0
  /\ acquired = {}
  /\ ev = NoEvent

runtime == <<success, host, nextChange, graph_change_stack, graph_stack, rpvar,
             releases, captures, output, gc_calls, acquired>>
generator == <<main_program, graph_copying, restore_point_count, main_c, console>>

(***************************************************************************)
(* generateRuntimeMain, then the start of the emitted program.             *)
(***************************************************************************)
Generate ==
  /\ pc = "gen"
  /\ \E r \in {generateRuntimeMain(main_program, restore_point_count)} :
     LET mainBlock == Block("main", 156, [context |-> "MAIN_BODY"], "", FALSE, r.code, << >>)
     IN  /\ restore_point_count' = r.cnt
         /\ main_c' = Append(main_c, r.code)
         /\ console' = console \o r.log
         /\ IF r.abort
            THEN /\ pc' = "aborted"
                 /\ UNCHANGED <<ctrl, rpvar, releases>>
            ELSE IF ~Compiles(r.code)
            THEN /\ pc' = "nocompile"
                 /\ UNCHANGED <<ctrl, rpvar, releases>>
            ELSE /\ pc' = "run"
                 /\ ctrl' = << Frame("blk", mainBlock, r.code) >>
                 /\ rpvar' = [i \in 0..(r.cnt - 1) |-> -1]
                 /\ releases' = [i \in 0..(r.cnt - 1) |-> -1]
  /\ ev' = [NoEvent EXCEPT !.op = "gen"]
  /\ UNCHANGED <<main_program, graph_copying, success, host, nextChange,
                 graph_change_stack, graph_stack, captures, output, gc_calls, acquired>>

\* generateRuntimeMain is called a second time by the same process, on the
\* same declarations.
GenerateAgain ==
  /\ pc \in {"done", "exit", "crash", "nocompile"}
  /\ Len(main_c) = 1
  /\ \E r \in {generateRuntimeMain(main_program, restore_point_count)} :
       /\ restore_point_count' = r.cnt
       /\ main_c' = Append(main_c, r.code)
       /\ console' = console \o r.log
  /\ pc' = "again"
  /\ ev' = [NoEvent EXCEPT !.op = "gen", !.how = pc]
  /\ UNCHANGED <<main_program, graph_copying, ctrl, runtime>>

(***************************************************************************)
(* Entering and leaving blocks.                                            *)
(***************************************************************************)
\* The text of a generateProgramCode call starts.
EnterCmd ==
  /\ Running /\ Cur.op = "cmd"
  /\ ctrl' = Append(ctrl, Frame("cmd", Cur, Cur.a))
  /\ ev' = Event("enter", Cur, CmdFrame(ctrl), ctrl, FALSE, 0, 0)
  /\ UNCHANGED <<pc, generator, runtime>>

\* ctrl without its innermost frame.  When that frame is a branch condition,
\* the frame of its if/try statement notes the host graph.
Leave(c) ==
  IF IsCondition(c[Len(c)])
  THEN [Pop(c) EXCEPT ![InnermostCmd(Pop(c))].hostc = host]
  ELSE Pop(c)

\* The innermost block has run to its end.  A while loop tests success
\* again; after any other block the statement that opened it is done.
EndBlock ==
  /\ pc = "run" /\ Len(ctrl) > 1 /\ Top.rest = << >>
  /\ ctrl' = IF Top.k = "loop" THEN Pop(ctrl) ELSE Advance(Leave(ctrl))
  /\ ev' = Event(IF Top.k = "cmd" THEN "exit" ELSE "end", StmtOf(Top), Top,
                 Pop(ctrl), FALSE, 0, 0)
  /\ UNCHANGED <<pc, generator, runtime>>

\* do { ... } while(false);
ExecDoOnce ==
  /\ Running /\ Cur.op = "doOnce"
  /\ ctrl' = Append(ctrl, Frame("once", Cur, Cur.a))
  /\ ev' = Did
  /\ UNCHANGED <<pc, generator, runtime>>

\* while(success) { ... }
ExecWhile ==
  /\ Running /\ Cur.op = "while"
  /\ ctrl' = IF success THEN Append(ctrl, Frame("loop", Cur, Cur.a)) ELSE Advance(ctrl)
  /\ ev' = Did
  /\ UNCHANGED <<pc, generator, runtime>>

\* if(success) { a } else { b }; if(!success) break; is the same with a empty.
ExecIfSuccess ==
  /\ Running /\ Cur.op = "ifSuccess"
  /\ ctrl' = Append(ctrl, Frame("blk", Cur, IF success THEN Cur.a ELSE Cur.b))
  /\ ev' = Did
  /\ UNCHANGED <<pc, generator, runtime>>

\* int random = rand(); if((random % 2) == 0) { a } else { b }
ExecOr ==
  /\ Running /\ Cur.op = "or"
  /\ \E random \in {0, 1} :
       /\ ctrl' = Append(ctrl, Frame("blk", Cur, IF random = 0 THEN Cur.a ELSE Cur.b))
       /\ ev' = [Did EXCEPT !.n1 = random]
  /\ UNCHANGED <<pc, generator, runtime>>

\* Marks the innermost rule set of c as having matched a rule.
Hit(c) ==
  LET i == InnermostCmd(c)
  IN  IF i > 0 /\ c[i].g.type = "RULE_SET_CALL" THEN [c EXCEPT ![i].hit = TRUE] ELSE c

\* if(match<R>(M_<R>)) { a } else { b }.  The matcher may find a match or
\* not; a rule that is then applied matches only while the model has room
\* for another change.
ExecMatch ==
  /\ Running /\ Cur.op = "ifMatch"
  /\ host # NullGraph
  /\ \E m \in BOOLEAN :
       /\ m /\ Cur.a # << >> /\ Head(Cur.a).op = "apply" => nextChange <= MaxChanges
       /\ ctrl' = Append(IF m THEN Hit(ctrl) ELSE ctrl,
                         Frame("blk", Cur, IF m THEN Cur.a ELSE Cur.b))
       /\ ev' = [Did EXCEPT !.flag = m]
  /\ UNCHANGED <<pc, generator, runtime>>

\* apply<R>(record) and apply<R>(M_<R>, record)
ExecApply ==
  /\ Running /\ Cur.op = "apply"
  /\ host # NullGraph
  /\ nextChange <= MaxChanges
  /\ host' = host \cup {nextChange}
  /\ nextChange' = nextChange + 1
  /\ graph_change_stack' = IF Cur.flag THEN Append(graph_change_stack, nextChange)
                           ELSE graph_change_stack
  /\ ctrl' = Advance(IF Cur.line \in {429, 430} THEN Hit(ctrl) ELSE ctrl)
  /\ ev' = Did
  /\ UNCHANGED <<pc, generator, success, graph_stack, rpvar, releases, captures,
                 output, gc_calls, acquired>>

\* initialiseMorphism(M_<R>, host)
ExecInitialiseMorphism ==
  /\ Running /\ Cur.op = "initialiseMorphism"
  /\ ctrl' = Advance(ctrl)
  /\ ev' = Did
  /\ UNCHANGED <<pc, generator, runtime>>

\* success = true; success = false;  The failure code of a branch condition
\* marks the condition as failed.
ExecSetSuccess ==
  /\ Running /\ Cur.op = "setSuccess"
  /\ success' = Cur.flag
  /\ LET i == InnermostCondition(ctrl)
     IN  ctrl' = Advance(IF Cur.line = 747 /\ Cur.ctx \in {"IF_BODY", "TRY_BODY"} /\ i > 0
                         THEN [ctrl EXCEPT ![i].failed = TRUE] ELSE ctrl)
  /\ ev' = Did
  /\ UNCHANGED <<pc, generator, host, nextChange, graph_change_stack, graph_stack,
                 rpvar, releases, captures, output, gc_calls, acquired>>


Released(rp) ==
  [releases EXCEPT ![rp] = IF @ < 0 \/ @ >= 2 THEN 2 ELSE @ + 1]

Captured(rp) == Append(SelectSeq(captures, LAMBDA x : x # rp), rp)

\* A restore point captured after the latest capture of rp is unreleased.
InnerOpen(rp) ==
  \E i, j \in 1..Len(captures) :
     /\ captures[i] = rp /\ i < j /\ releases[captures[j]] = 0

\* int restore_point<N> = graph_change_stack == NULL ? 0 : topOfGraphChangeStack();
ExecCapture ==
  /\ Running /\ Cur.op = "capture"
  /\ rpvar' = [rpvar EXCEPT ![Cur.rp] = topOfGraphChangeStack(graph_change_stack)]
  /\ releases' = [releases EXCEPT ![Cur.rp] = 0]
  /\ captures' = Captured(Cur.rp)
  /\ ctrl' = Advance(ctrl)
  /\ ev' = [Did EXCEPT !.n1 = releases[Cur.rp]]
  /\ UNCHANGED <<pc, generator, success, host, nextChange, graph_change_stack,
                 graph_stack, output, gc_calls, acquired>>

\* restore_point<N> = topOfGraphChangeStack();
ExecAssignTop ==
  /\ Running /\ Cur.op = "assignTop"
  /\ rpvar' = [rpvar EXCEPT ![Cur.rp] = topOfGraphChangeStack(graph_change_stack)]
  /\ ctrl' = Advance(ctrl)
  /\ ev' = Did
  /\ UNCHANGED <<pc, generator, success, host, nextChange, graph_change_stack,
                 graph_stack, releases, captures, output, gc_calls, acquired>>

\* undoChanges(host, restore_point<N>);
ExecUndoChanges ==
  /\ Running /\ Cur.op = "undoChanges"
  /\ host # NullGraph
  /\ host' = undoChanges(host, graph_change_stack, rpvar[Cur.rp]).graph
  /\ graph_change_stack' = undoChanges(host, graph_change_stack, rpvar[Cur.rp]).stack
  /\ releases' = Released(Cur.rp)
  /\ ctrl' = Advance(ctrl)
  /\ ev' = [Did EXCEPT !.n1 = releases'[Cur.rp], !.inner = InnerOpen(Cur.rp)]
  /\ UNCHANGED <<pc, generator, success, nextChange, graph_stack, rpvar, captures,
                 output, gc_calls, acquired>>

\* discardChanges(restore_point<N>);
ExecDiscardChanges ==
  /\ Running /\ Cur.op = "discardChanges"
  /\ graph_change_stack' = discardChanges(graph_change_stack, rpvar[Cur.rp])
  /\ releases' = Released(Cur.rp)
  /\ ctrl' = Advance(ctrl)
  /\ ev' = [Did EXCEPT
              !.n1 = releases'[Cur.rp],
              !.inner = InnerOpen(Cur.rp),
              !.lost = \E i \in LiveFrames(ctrl) :
                          /\ ctrl[i].rp # Cur.rp
                          /\ Len(graph_change_stack) > rpvar[Cur.rp]
                          /\ Len(graph_change_stack) > rpvar[ctrl[i].rp]]
  /\ UNCHANGED <<pc, generator, success, host, nextChange, graph_stack, rpvar,
                 captures, output, gc_calls, acquired>>

\* copyGraph(host);
ExecCopyGraph ==
  /\ Running /\ Cur.op = "copyGraph"
  /\ host # NullGraph
  /\ graph_stack' = copyGraph(host, graph_stack)
  /\ releases' = [releases EXCEPT ![Cur.rp] = 0]
  /\ captures' = Captured(Cur.rp)
  /\ ctrl' = Advance(ctrl)
  /\ ev' = [Did EXCEPT !.n1 = releases[Cur.rp]]
  /\ UNCHANGED <<pc, generator, success, host, nextChange, graph_change_stack,
                 rpvar, output, gc_calls, acquired>>

\* host = popGraphs(N);
ExecPopHost ==
  /\ Running /\ Cur.op = "popHost"
  /\ host' = popGraphs(graph_stack, Cur.rp).graph
  /\ graph_stack' = popGraphs(graph_stack, Cur.rp).stack
  /\ releases' = Released(Cur.rp)
  /\ ctrl' = Advance(ctrl)
  /\ ev' = [Did EXCEPT !.n1 = releases'[Cur.rp], !.inner = InnerOpen(Cur.rp)]
  /\ UNCHANGED <<pc, generator, success, nextChange, graph_change_stack, rpvar,
                 captures, output, gc_calls, acquired>>

\* Graph *copy = popGraphs(N); freeGraph(copy);
ExecPopFree ==
  /\ Running /\ Cur.op = "popFree"
  /\ graph_stack' = popGraphs(graph_stack, Cur.rp).stack
  /\ releases' = Released(Cur.rp)
  /\ ctrl' = Advance(ctrl)
  /\ ev' = [Did EXCEPT !.n1 = releases'[Cur.rp], !.inner = InnerOpen(Cur.rp)]
  /\ UNCHANGED <<pc, generator, success, host, nextChange, graph_change_stack,
                 rpvar, captures, output, gc_calls, acquired>>

\* A statement reads the host graph after host = popGraphs(N) returned NULL.
Crash ==
  /\ Running /\ host = NullGraph
  /\ Cur.op \in {"ifMatch", "apply", "undoChanges", "copyGraph", "printGraph"}
  /\ pc' = "crash"
  /\ ev' = Did
  /\ UNCHANGED <<ctrl, generator, runtime>>

\* break;
ExecBreak ==
  /\ Running /\ Cur.op = "break"
  /\ pc' = "brk"
  /\ ev' = [Did EXCEPT !.brk = Cur.line]
  /\ UNCHANGED <<ctrl, generator, runtime>>

\* The break leaves the innermost block; it is done when that block is a
\* do-while(false) or a while.
LeaveByBreak ==
  /\ pc = "brk"
  /\ pc' = IF Top.k \in {"once", "loop"} THEN "run" ELSE "brk"
  /\ ctrl' = IF Top.k \in {"once", "loop"} THEN Advance(Pop(ctrl)) ELSE Leave(ctrl)
  /\ ev' = Event(IF Top.k = "cmd" THEN "exit" ELSE "end", StmtOf(Top), Top,
                 Pop(ctrl), FALSE, ev.brk, 0)
  /\ UNCHANGED <<generator, runtime>>

\* openLogFile("gp2.log");
ExecOpenLogFile ==
  /\ Running /\ Cur.op = "openLogFile"
  /\ acquired' = acquired \cup {"log"}
  /\ ctrl' = Advance(ctrl)
  /\ ev' = Did
  /\ UNCHANGED <<pc, generator, success, host, nextChange, graph_change_stack,
                 graph_stack, rpvar, releases, captures, output, gc_calls>>

\* if(argc != 2) { a }
ExecIfArgc ==
  /\ Running /\ Cur.op = "ifArgc"
  /\ \E argc \in {1, 2} :
       /\ ctrl' = Append(ctrl, Frame("blk", Cur, IF argc # 2 THEN Cur.a ELSE << >>))
       /\ ev' = [Did EXCEPT !.n1 = argc]
  /\ UNCHANGED <<pc, generator, runtime>>

\* host = buildHostGraph(argv[1]);  NULL when the host graph file cannot be
\* opened or parsed.
ExecBuildHostGraph ==
  /\ Running /\ Cur.op = "buildHostGraph"
  /\ \E built \in BOOLEAN :
       /\ host' = IF built THEN {} ELSE NullGraph
       /\ acquired' = IF built THEN acquired \cup {"host"} ELSE acquired
       /\ ev' = [Did EXCEPT !.flag = built]
  /\ ctrl' = Advance(ctrl)
  /\ UNCHANGED <<pc, generator, success, nextChange, graph_change_stack,
                 graph_stack, rpvar, releases, captures, output, gc_calls>>

\* FILE *output_file = fopen("gp2.output", "w");
ExecFopen ==
  /\ Running /\ Cur.op = "fopen"
  /\ \E opened \in BOOLEAN :
       /\ acquired' = IF opened THEN acquired \cup {"output_file"} ELSE acquired
       /\ ev' = [Did EXCEPT !.flag = opened]
  /\ ctrl' = Advance(ctrl)
  /\ UNCHANGED <<pc, generator, success, host, nextChange, graph_change_stack,
                 graph_stack, rpvar, releases, captures, output, gc_calls>>

\* if(host == NULL) { a }  if(output_file == NULL) { a }
ExecIfNull ==
  /\ Running /\ Cur.op = "ifNull"
  /\ LET null == IF Cur.arg = "host" THEN host = NullGraph
                 ELSE "output_file" \notin acquired
     IN  ctrl' = Append(ctrl, Frame("blk", Cur, IF null THEN Cur.a ELSE << >>))
  /\ ev' = Did
  /\ UNCHANGED <<pc, generator, runtime>>

\* M_<R> = makeMorphism(...); for every rule
ExecMakeMorphism ==
  /\ Running /\ Cur.op = "makeMorphism"
  /\ acquired' = acquired \cup {"morphisms"}
  /\ ctrl' = Advance(ctrl)
  /\ ev' = Did
  /\ UNCHANGED <<pc, generator, success, host, nextChange, graph_change_stack,
                 graph_stack, rpvar, releases, captures, output, gc_calls>>

\* exit(1);
ExecExit ==
  /\ Running /\ Cur.op = "exit"
  /\ pc' = "exit"
  /\ ev' = Did
  /\ UNCHANGED <<ctrl, generator, runtime>>

\* fprintf(output_file, ...);
ExecFprintf ==
  /\ Running /\ Cur.op = "fprintf"
  /\ output' = Append(output, Cur.arg)
  /\ ctrl' = Advance(ctrl)
  /\ ev' = Did
  /\ UNCHANGED <<pc, generator, success, host, nextChange, graph_change_stack,
                 graph_stack, rpvar, releases, captures, gc_calls, acquired>>

\* printGraph(host, output_file);
ExecPrintGraph ==
  /\ Running /\ Cur.op = "printGraph"
  /\ host # NullGraph
  /\ output' = Append(output, Cur.arg)
  /\ ctrl' = Advance(ctrl)
  /\ ev' = Did
  /\ UNCHANGED <<pc, generator, success, host, nextChange, graph_change_stack,
                 graph_stack, rpvar, releases, captures, gc_calls, acquired>>

\* printf(...); fprintf(stderr, ...); perror(...);
ExecPrintf ==
  /\ Running /\ Cur.op \in {"printf", "stderr"}
  /\ ctrl' = Advance(ctrl)
  /\ ev' = Did
  /\ UNCHANGED <<pc, generator, runtime>>

\* garbageCollect();
ExecGarbageCollect ==
  /\ Running /\ Cur.op = "garbageCollect"
  /\ gc_calls' = gc_calls + 1
  /\ acquired' = acquired \ {"host", "morphisms", "log"}
  /\ ctrl' = Advance(ctrl)
  /\ ev' = Did
  /\ UNCHANGED <<pc, generator, success, host, nextChange, graph_change_stack,
                 graph_stack, rpvar, releases, captures, output>>

\* fclose(output_file);
ExecFclose ==
  /\ Running /\ Cur.op = "fclose"
  /\ acquired' = acquired \ {"output_file"}
  /\ ctrl' = Advance(ctrl)
  /\ ev' = Did
  /\ UNCHANGED <<pc, generator, success, host, nextChange, graph_change_stack,
                 graph_stack, rpvar, releases, captures, output, gc_calls>>

\* return 0;
ExecReturn ==
  /\ Running /\ Cur.op = "return"
  /\ pc' = "ret"
  /\ ev' = Did
  /\ UNCHANGED <<ctrl, generator, runtime>>

\* The return leaves the innermost block; main has returned when none is left.
LeaveByReturn ==
  /\ pc = "ret"
  /\ pc' = IF Len(ctrl) = 1 THEN "done" ELSE "ret"
  /\ ctrl' = Pop(ctrl)
  /\ ev' = Event(IF Top.k = "cmd" THEN "exit" ELSE "end", StmtOf(Top), Top,
                 Pop(ctrl), FALSE, 0, 0)
  /\ UNCHANGED <<generator, runtime>>

Next ==
  \/ Generate \/ GenerateAgain
  \/ EnterCmd \/ EndBlock
  \/ ExecDoOnce \/ ExecWhile \/ ExecIfSuccess \/ ExecOr
  \/ ExecMatch \/ ExecApply \/ ExecInitialiseMorphism \/ ExecSetSuccess
  \/ ExecCapture \/ ExecAssignTop \/ ExecUndoChanges \/ ExecDiscardChanges
  \/ ExecCopyGraph \/ ExecPopHost \/ ExecPopFree \/ Crash
  \/ ExecBreak \/ LeaveByBreak
  \/ ExecOpenLogFile \/ ExecIfArgc \/ ExecBuildHostGraph \/ ExecIfNull \/ ExecFopen
  \/ ExecMakeMorphism \/ ExecExit
  \/ ExecFprintf \/ ExecPrintGraph \/ ExecPrintf \/ ExecGarbageCollect \/ ExecFclose
  \/ ExecReturn \/ LeaveByReturn

Spec == Init /\ [][Next]_vars


(***************************************************************************)
(* Properties of the emitted program.                                      *)
(***************************************************************************)
ReleaseOps == {"undoChanges", "discardChanges", "popHost", "popFree"}
CaptureOps == {"capture", "copyGraph"}

\* The step just taken started the text of the then branch (line 600) or of
\* the else branch (line 625) of a statement of the given type.
StartsBranch(line, type) ==
  ev.op = "enter" /\ ev.line = line /\ ev.ptype = type

\* C1: every frame captured for an if, try or loop (topOfGraphChangeStack or
\* copyGraph) is released exactly once (undoChanges, discardChanges or
\* popGraphs) before control leaves the construct: it is never released a
\* second time, it is released before the construct captures it again, and
\* none is unreleased when main returns.
C1_ReleasedExactlyOnce ==
  /\ \A rp \in DOMAIN releases : releases[rp] <= 1
  /\ ev.op \in CaptureOps => ev.n1 # 0
  /\ pc = "done" => \A rp \in DOMAIN releases : releases[rp] # 0

\* C1: a restore frame is released a second time.
C1_ReleasedTwice ==
  ev.op \in ReleaseOps /\ ev.n1 = 2

\* C2: when the then or the else branch of `if C then P else Q` starts, the
\* host graph is the host graph at the moment the condition was entered.
C2_IfConditionLeavesNoChange ==
  StartsBranch(600, "IF_STATEMENT") \/ StartsBranch(625, "IF_STATEMENT")
    => host = ev.host0

\* C2: a branch of an if statement starts on a host graph its condition changed.
C2_IfConditionLeak ==
  /\ StartsBranch(600, "IF_STATEMENT") \/ StartsBranch(625, "IF_STATEMENT")
  /\ host # ev.host0 /\ host # NullGraph

\* C3: in `try C then P else Q`, P starts with success = true on the host
\* graph as C left it, and Q starts with success = true on the host graph
\* at the moment C was entered.
C3_TryBranches ==
  /\ StartsBranch(600, "TRY_STATEMENT") => success /\ host = ev.hostc
  /\ StartsBranch(625, "TRY_STATEMENT") => success /\ host = ev.host0

\* C3: the else branch of a try statement starts on a host graph the failed
\* condition changed.
C3_TryElseOnChangedGraph ==
  StartsBranch(625, "TRY_STATEMENT") /\ host # ev.host0 /\ host # NullGraph

\* C4: when an iteration of a loop body fails, the host graph is the host
\* graph at the start of that iteration, and the loop ends with success =
\* true.
C4_FailingIterationUndone ==
  /\ ev.op = "exit" /\ ev.line = 675 /\ ~success => host = ev.host0
  /\ ev.op = "exit" /\ ev.g.type = "ALAP_STATEMENT" => success

\* C4: a failed iteration of a loop body ends on a changed host graph.
C4_FailingIterationLeak ==
  /\ ev.op = "exit" /\ ev.line = 675 /\ ~success
  /\ host # ev.host0 /\ host # NullGraph

\* C5: restore frames are used as a strict stack: when a frame is released,
\* no frame captured after it is still unreleased, and a discardChanges never
\* drops change records above the restore point of a frame still in use.
C5_StrictStack ==
  /\ ev.op \in ReleaseOps => ~ev.inner
  /\ ev.op = "discardChanges" => ~ev.lost

\* C5: a discardChanges drops records a frame still in use has to undo.
C5_RecordsLost ==
  ev.op = "discardChanges" /\ ev.lost

\* C6: a failure in the condition of an if/try statement sets success to
\* false and leaves the whole condition at once: no command starts in a
\* condition in which failure code has run, and such a condition ends with
\* success = false.
C6_FailureLeavesCondition ==
  /\ ev.op = "enter" => ~ev.cfailed
  /\ ev.op = "exit" /\ ev.line = 562 /\ ev.failed => ~success

\* C6: a command starts in a condition in which failure code has already run.
C6_CommandAfterFailure ==
  ev.op = "enter" /\ ev.cfailed

\* C7: the commands of a sequence run left to right, and a command runs
\* exactly when the commands before it have run and ended with success =
\* true: a command after the first starts with success = true, and after a
\* command that ended with success = true (main not returning) the next one
\* starts, unless a GP 2 break statement (line 398) leaves the loop.
C7_SequenceOrder ==
  /\ ev.op = "enter" /\ ev.line = 285 /\ ev.g.idx > 1 => success
  /\ ev.op = "exit" /\ ev.line = 285 /\ ev.g.idx < ev.g.n /\ success /\ ev.how # "ret"
       => ev.how = "run" \/ ev.brk = 398

\* C7: a successful command of a sequence is left by the break printed after
\* a nested if/try statement (line 627) or after an or statement (line 348),
\* so the command after it is skipped.
C7_SuccessorSkipped ==
  /\ ev.op = "exit" /\ ev.line = 285 /\ ev.g.idx < ev.g.n /\ success
  /\ ev.how = "brk" /\ ev.brk \in {627, 348}

\* C8: a rule set call applies at most one rule, the first that matches:
\* once a rule of the set has matched, no further rule is matched or
\* applied; failure code runs only when no rule has matched, and a rule set
\* none of whose rules matched ends in failure.
C8_FirstMatchingRuleOnly ==
  /\ /\ ev.ptype = "RULE_SET_CALL"
     /\ \/ ev.op = "ifMatch"
        \/ ev.op = "apply" /\ ev.line \in {429, 430}
        \/ ev.op = "setSuccess" /\ ev.line = 747
        \/ ev.op = "fprintf" /\ ev.line = 736
     => ~ev.hit
  /\ ev.op = "exit" /\ ev.g.type = "RULE_SET_CALL" /\ ~ev.hit
       => ~success \/ ev.how = "ret"

\* C8: a rule of a rule set is matched after an earlier rule of the set has
\* been applied.
C8_MatchedAfterMatch ==
  ev.op = "ifMatch" /\ ev.ptype = "RULE_SET_CALL" /\ ev.hit

\* C9: the code emitted for a command c with nullCommand(c) = true leaves
\* the host graph as it was before c.
C9_NullCommandLeavesGraph ==
  ev.op = "exit" /\ ev.g.null => host = ev.host0

\* C9: the text of a null command ends on a changed host graph.
C9_NullCommandChangedGraph ==
  ev.op = "exit" /\ ev.g.null /\ host # ev.host0 /\ host # NullGraph

\* The subcommands of a command, the command itself included.
RECURSIVE SubCommands(_)
SubCommands(c) ==
  {c} \cup UNION {SubCommands(c.sub[i]) : i \in 1..Len(c.sub)}

\* C10: the code emitted for a command c with neverFails(c) = true, started
\* with success = true, ends with success = true and not by the failure
\* return of main; and neverFails is true of every loop, false of fail, and
\* of an if/try statement what it is of both its then and its else branch.
C10_NeverFailsSound ==
  /\ ev.op = "exit" /\ ev.g.nf /\ ev.s0 => success /\ ev.how # "ret"
  /\ pc = "gen" =>
       \A c \in SubCommands(main_program) :
          /\ c.type = "ALAP_STATEMENT" => neverFails(c)
          /\ c.type = "FAIL_STATEMENT" => ~neverFails(c)
          /\ c.type \in {"IF_STATEMENT", "TRY_STATEMENT"} =>
               neverFails(c) = (neverFails(then_command(c)) /\ neverFails(else_command(c)))

\* C10: the text of a try statement that never fails ends after its
\* condition failed and its else branch ran.
C10_NeverFailingTryEnds ==
  /\ ev.op = "exit" /\ ev.g.nf /\ ev.s0 /\ success
  /\ ev.g.type = "TRY_STATEMENT" /\ host = ev.host0 /\ host # ev.hostc


(***************************************************************************)
(* Properties of the emitted text.                                         *)
(***************************************************************************)
\* The "cmd" statements of a text, nested ones included: one per call of
\* generateProgramCode.
RECURSIVE Cmds(_)
Cmds(block) ==
  IF block = << >> THEN {}
  ELSE (IF Head(block).op = "cmd" THEN {Head(block)} ELSE {})
       \cup Cmds(Head(block).a) \cup Cmds(Head(block).b) \cup Cmds(Tail(block))

\* The statements of a block printed by the given line of genProgram.c.
PrintedBy(block, line) == SelectSeq(block, LAMBDA x : x.line = line)

\* Of the text s of an if/try statement: the text of its condition, of its
\* then branch and of its else branch.
ConditionOf(s) == PrintedBy(s.a, 560)[1].a[1]
ThenOf(s) == PrintedBy(PrintedBy(s.a, 589)[1].a, 600)[1]
ElseOf(s) == PrintedBy(PrintedBy(s.a, 589)[1].b, 625)[1]
\* Of the text s of a loop: the text of its body.
BodyOf(s) == PrintedBy(s.a, 673)[1].a[1]

\* The text s starts with the capture of restore point rp (rp >= 0), or
\* with the construct itself, printed by line (rp < 0).
CaptureFirst(s, rp, line) ==
  IF rp >= 0 THEN s.a[1].op \in CaptureOps /\ s.a[1].rp = rp /\ s.a[2].line = line
  ELSE s.a[1].line = line

\* The restore points allocated for the text: those of the conditions and loop
\* bodies generated with one.
Allocated(text) ==
  {s.rp : s \in {x \in Cmds(text) : x.line \in {562, 675} /\ x.rp >= 0}}

\* generateRuntimeMain has just returned from its first call.
Generated == ev.op = "gen" /\ pc \in {"run", "nocompile"}

\* C11: an if statement gets no restore point exactly when singleRule holds
\* of its condition; a try statement exactly when nullCommand holds of its
\* condition, or singleRule of its condition and nullCommand of both
\* branches; a loop exactly when singleRule holds of its body.  Without a
\* restore point no capture is printed and the counter stays; otherwise the
\* capture is printed before the construct and the counter grows by one.
C11_RestorePointSuppression ==
  Generated =>
    /\ \A s \in Cmds(main_c[1]) :
         /\ s.g.type = "IF_STATEMENT" =>
              /\ ConditionOf(s).rp < 0 <=> ConditionOf(s).g.single
              /\ CaptureFirst(s, ConditionOf(s).rp, 560)
         /\ s.g.type = "TRY_STATEMENT" =>
              /\ ConditionOf(s).rp < 0 <=>
                   \/ ConditionOf(s).g.null
                   \/ /\ ConditionOf(s).g.single
                      /\ ThenOf(s).g.null
                      /\ ElseOf(s).g.null
              /\ CaptureFirst(s, ConditionOf(s).rp, 560)
         /\ s.g.type = "ALAP_STATEMENT" =>
              /\ BodyOf(s).rp < 0 <=> BodyOf(s).g.single
              /\ CaptureFirst(s, BodyOf(s).rp, 673)
    /\ restore_point_count = Cardinality(Allocated(main_c[1]))

\* C11: a simple try statement (single-rule condition that is not null, null
\* branches) was generated without restore point next to a construct with one.
C11_SimpleTrySuppressed ==
  /\ Generated
  /\ restore_point_count > 0
  /\ \E s \in Cmds(main_c[1]) :
       /\ s.g.type = "TRY_STATEMENT"
       /\ ConditionOf(s).rp < 0
       /\ ~ConditionOf(s).g.null

\* C12: the text of a subcommand is generated with restore_point >= 0
\* exactly when it lies in a condition or loop body that has a restore point:
\* whenever the text of a generateProgramCode call starts to run, the
\* restore_point of its CommandData is non-negative iff a restore frame is
\* in use.
C12_RestorePointIffFrame ==
  ev.op = "enter" => (ev.rp >= 0 <=> LiveFrames(ctrl) # {})

\* C12: a subcommand generated with restore_point -1 runs inside a condition
\* or loop body that has a restore point.
C12_NoRestorePointInsideFrame ==
  ev.op = "enter" /\ ev.rp < 0 /\ LiveFrames(ctrl) # {}

\* The restore points whose capture a text prints, in the order of the text.
RECURSIVE CaptureIds(_)
CaptureIds(block) ==
  IF block = << >> THEN << >>
  ELSE (IF Head(block).op \in CaptureOps THEN << Head(block).rp >> ELSE << >>)
       \o CaptureIds(Head(block).a) \o CaptureIds(Head(block).b)
       \o CaptureIds(Tail(block))

\* Those of all the texts generated so far, first generation first.
AllCaptureIds ==
  IF Len(main_c) = 2 THEN CaptureIds(main_c[1]) \o CaptureIds(main_c[2])
  ELSE CaptureIds(main_c[1])

\* C13: the restore points are numbered in the order of their allocation
\* with strictly growing ids, all below restore_point_count: no two restore
\* points share an id or a variable name, those of a procedure body inlined
\* at several call sites included.
C13_RestorePointIdsDistinct ==
  ev.op = "gen" =>
    /\ \A i, j \in 1..Len(AllCaptureIds) : i < j => AllCaptureIds[i] < AllCaptureIds[j]
    /\ \A i \in 1..Len(AllCaptureIds) :
         0 <= AllCaptureIds[i] /\ AllCaptureIds[i] < restore_point_count

\* C13: a procedure whose body has a restore point was inlined at two call
\* sites.
C13_ProcedureInlinedTwice ==
  /\ ev.op = "gen"
  /\ main_program.type = "COMMAND_SEQUENCE"
  /\ \A i \in 1..Len(main_program.sub) : main_program.sub[i].type = "PROCEDURE_CALL"
  /\ Len(CaptureIds(main_c[1])) = 2

\* C14: whenever the emitted main function has exited, by return or by
\* exit, garbageCollect has been called exactly once and the log file, the
\* host graph and the morphisms are released.
C14_TeardownOnEveryExit ==
  pc \in {"done", "exit"} =>
    /\ gc_calls = 1
    /\ acquired \cap {"log", "host", "morphisms"} = {}

\* C14: main has exited without a call of garbageCollect while the log file
\* is open.
C14_ExitWithoutTeardown ==
  pc \in {"done", "exit"} /\ gc_calls = 0 /\ "log" \in acquired

\* msg has been written to gp2.output.
Written(msg) == \E i \in 1..Len(output) : output[i] = msg

\* The step just taken is a failure in the given kind of context: the last
\* rule of a rule set or the rule of a rule call did not match, or the text
\* of a fail statement starts.
FailureIn(main) ==
  /\ \/ ev.op = "ifMatch" /\ ~ev.flag /\ ev.last
     \/ ev.op = "enter" /\ ev.g.type = "FAIL_STATEMENT"
  /\ main <=> ev.ctx = "MAIN_BODY"

MainFailed == Written("rule not applicable") \/ Written("Fail statement invoked")

\* C15: a failure in MAIN_BODY context is followed at once by the cause
\* message; once the message is written only the message, teardown and
\* return steps happen, printGraph is not called and main returns.  A
\* failure in another context sets success to false and main goes on.
C15_MainFailureEndsProgram ==
  /\ FailureIn(TRUE) =>
       /\ Running /\ Cur.op = "fprintf"
       /\ Cur.line = IF ev.op = "enter" THEN 738 ELSE 736
  /\ MainFailed =>
       /\ ev.op \in {"fprintf", "printf", "garbageCollect", "fclose", "return", "end",
                     "exit", "gen"}
       /\ ev.op = "fprintf" => ev.line \in {736, 738}
       /\ ev.op \in {"end", "exit"} => ev.how = "ret"
       /\ ~Written("graph")
       /\ pc \in {"run", "ret", "done", "again"}
  /\ FailureIn(FALSE) =>
       /\ Running /\ Cur.op = "setSuccess" /\ Cur.line = 747 /\ ~Cur.flag
       /\ ~MainFailed
  /\ ev.op = "setSuccess" /\ ev.line = 747 => pc = "run" /\ ~MainFailed /\ ~success

\* C15: main has returned after a fail statement in a branch of an if or try
\* statement at the top level, with no output graph.
C15_FailInBranchEndedMain ==
  /\ pc = "done"
  /\ main_program.type \in {"IF_STATEMENT", "TRY_STATEMENT"}
  /\ Written("Fail statement invoked")
  /\ ~Written("graph")
  /\ gc_calls = 1

\* The statements of a text in the order of the text, nested ones included.
RECURSIVE Statements(_)
Statements(block) ==
  IF block = << >> THEN << >>
  ELSE << Head(block) >> \o Statements(Head(block).a) \o Statements(Head(block).b)
       \o Statements(Tail(block))

\* How often msg was passed to print_error.
Reported(msg) == Len(SelectSeq(console, LAMBDA x : x = msg))

\* The calls of generateProgramCode for a loop body that is a null command.
NullBodies(text) ==
  SelectSeq(Statements(text), LAMBDA x : x.op = "cmd" /\ x.line = 675 /\ x.g.null)

\* C16: the generator exits with the non-termination error exactly when the
\* program has a loop whose body never fails, and then nothing of that loop
\* has been printed; otherwise it prints one warning for every loop whose
\* body is a null command and no other message.
C16_NonTerminationAborts ==
  ev.op = "gen" /\ Len(main_c) = 1 =>
    /\ pc = "aborted" <=>
         \E c \in SubCommands(main_program) :
            c.type = "ALAP_STATEMENT" /\ neverFails(loop_body(c))
    /\ Reported("Error: Nontermination in loop.") = IF pc = "aborted" THEN 1 ELSE 0
    /\ pc = "aborted" => console[Len(console)] = "Error: Nontermination in loop."
    /\ \A s \in Cmds(main_c[1]) :
         /\ s.line = 675 => ~s.g.nf
         /\ s.g.type = "ALAP_STATEMENT" /\ s.a = << >> => pc = "aborted"
    /\ Reported("Warning: Possible nontermination in loop.") = Len(NullBodies(main_c[1]))
    /\ Len(console) = Reported("Error: Nontermination in loop.")
                      + Reported("Warning: Possible nontermination in loop.")

\* C16: the generator exited at a loop that is not the main program, after
\* the warning for a loop with a null body.
C16_AbortedAfterWarning ==
  /\ pc = "aborted"
  /\ main_program.type # "ALAP_STATEMENT"
  /\ console = << "Warning: Possible nontermination in loop.",
                  "Error: Nontermination in loop." >>

\* C17: when generateRuntimeMain has been called twice on the same
\* declarations, the second text equals the first.
C17_SameTextTwice ==
  Len(main_c) = 2 => main_c[2] = main_c[1]

\* C17: the second text numbers its restore points differently from the first.
C17_SecondTextRenumbered ==
  /\ Len(main_c) = 2
  /\ CaptureIds(main_c[1]) # << >>
  /\ CaptureIds(main_c[2]) # CaptureIds(main_c[1])

\* C18: under both strategies every text generated in full is well-formed:
\* no block declares an identifier twice and every restore_point<N> used is
\* declared in an enclosing scope.
C18_EmittedTextWellFormed ==
  pc # "aborted" => \A i \in 1..Len(main_c) : Compiles(main_c[i])

\* C18: a text generated for change recording is not well-formed.
C18_RecordingTextIllFormed ==
  pc = "nocompile" /\ ~graph_copying

\* C19: under change recording, every rule application executed while a
\* restore frame is in use records its changes.
C19_ChangesInFrameRecorded ==
  ev.op = "apply" /\ ~graph_copying /\ LiveFrames(ctrl) # {} => ev.flag

\* C19: a rule with an empty left-hand side was applied unrecorded while a
\* restore frame was in use.
C19_UnrecordedChangeInFrame ==
  /\ ev.op = "apply" /\ ev.line = 430 /\ ~ev.flag
  /\ ~graph_copying /\ LiveFrames(ctrl) # {}

\* Index in c of the innermost while loop being executed; 0 without one.
InnermostLoop(c) == Last({i \in 1..Len(c) : c[i].k = "loop"})

\* What the innermost loop being executed does with its restore point at the
\* end of a successful iteration: the statement printed after its body
\* (lines 676-714), none for a loop without restore point.
IterationEnd(c) ==
  SelectSeq(FrameAt(c, InnermostLoop(c)).rest, LAMBDA x : x.line \in {687, 697, 705})

C21_SingleRuleFailsUnchanged ==
  /\ ev.op = "exit" /\ ev.line \in {562, 675}
  /\ ev.rp < 0 /\ ev.g.single /\ ev.how # "ret"
  /\ ~success
  => host = ev.host0

\* C21: a rule set generated as a loop body without restore point has failed
\* after changing the host graph.
C21_RuleSetChangedThenFailed ==
  /\ ev.op = "exit" /\ ev.line = 675 /\ ev.g.type = "RULE_SET_CALL"
  /\ ev.rp < 0 /\ ev.g.single /\ ~success
  /\ host # ev.host0 /\ host # NullGraph

\* C22: in the CommandData of every generateProgramCode call, restore_point
\* >= 0 implies record_changes, and restore_point is -1 or an id allocated
\* before the call: below the counter, and below every id whose capture the
\* call prints.  The then and else branch of an if/try statement are generated
\* with the context, loop_depth, record_changes and restore_point the
\* statement itself was generated with, and an indent greater by 3.
C22_CommandDataWellFormed ==
  Generated =>
    \A s \in Cmds(main_c[1]) :
      /\ s.rp >= 0 => s.g.record_changes
      /\ s.rp = -1 \/ (0 <= s.rp /\ s.rp < restore_point_count)
      /\ \A i \in 1..Len(CaptureIds(s.a)) : s.rp < CaptureIds(s.a)[i]
      /\ s.g.type \in {"IF_STATEMENT", "TRY_STATEMENT"} =>
           \A b \in {ThenOf(s), ElseOf(s)} :
             /\ b.ctx = s.ctx
             /\ b.g.loop_depth = s.g.loop_depth
             /\ b.g.record_changes = s.g.record_changes
             /\ b.rp = s.rp
             /\ b.g.indent = s.g.indent + 3

\* C22: an if/try statement generated without restore point has a condition
\* with a restore point, and its branches were generated with the values of
\* the statement, not those of the condition.
C22_BranchesKeepParentData ==
  /\ Generated
  /\ \E s \in Cmds(main_c[1]) :
       /\ s.g.type \in {"IF_STATEMENT", "TRY_STATEMENT"}
       /\ s.rp < 0 /\ ~s.g.record_changes
       /\ ConditionOf(s).rp >= 0 /\ ConditionOf(s).g.record_changes
       /\ ConditionOf(s).ctx # s.ctx
       /\ ThenOf(s).rp < 0 /\ ~ThenOf(s).g.record_changes
       /\ ElseOf(s).rp < 0 /\ ~ElseOf(s).g.record_changes

=============================================================================
